---- MODULE Spec2Model ----
(***************************************************************************)
(* Price validation and repair for a tiered insurance catalogue.           *)
(*                                                                         *)
(* The module models src/modified_version.py (the guarded revision) and    *)
(* the repair loop of src/main.py (the unguarded revision).                *)
(*                                                                         *)
(* Strings are modelled as sequences of atoms.  An atom is the delimiter   *)
(* "_", a single character of a numeric token ("0".."9", "+", "-", " "),   *)
(* or a delimiter-free word ("casco", "basic", ...).  Two word atoms are   *)
(* never adjacent, so equal Python strings are equal atom sequences.       *)
(* Python's None is the option value with some = FALSE.                    *)
(***************************************************************************)
EXTENDS Integers, Sequences, FiniteSets, TLC

(***************************************************************************)
(* Option values (typing.Optional)                                         *)
(***************************************************************************)
NoneStr == [some |-> FALSE, v |-> <<>>]
NoneInt == [some |-> FALSE, v |-> 0]
Some(x) == [some |-> TRUE, v |-> x]

(***************************************************************************)
(* String constants of the program                                         *)
(***************************************************************************)
DELIM == "_"
MTPL == <<"mtpl">>
LIMITED_CASCO == <<"limited", "_", "casco">>
CASCO == <<"casco">>
COMPACT == <<"compact">>
BASIC == <<"basic">>
COMFORT == <<"comfort">>
PREMIUM == <<"premium">>

(***************************************************************************)
(* Rank tables                                                             *)
(***************************************************************************)
product_rank == (MTPL :> 1) @@ (LIMITED_CASCO :> 2) @@ (CASCO :> 3)

variants_rank == (COMPACT :> 1) @@ (BASIC :> 1) @@ (COMFORT :> 2) @@ (PREMIUM :> 3)

deductables_rank == (100 :> 1) @@ (200 :> 2) @@ (500 :> 3)

core_product == {MTPL}

\* The lookups raise KeyError on an absent key: Known* is the condition
\* under which the lookup returns, get_* the value it then returns.
KnownProduct(product) == product \in DOMAIN product_rank
get_product_rank(product) == product_rank[product]

KnownVariant(variant) == variant.some /\ variant.v \in DOMAIN variants_rank
get_variant_rank(variant) == variants_rank[variant.v]

KnownDeductible(deductible) == deductible.some /\ deductible.v \in DOMAIN deductables_rank
get_deductible_rank(deductible) == deductables_rank[deductible.v]

is_core_product(product) == product \in core_product

(***************************************************************************)
(* str.split("_"), "_".join and int()                                      *)
(***************************************************************************)
RECURSIVE SplitFrom(_, _, _)
\* parts collected so far, the token being read, the rest of the string
SplitFrom(parts, cur, rest) ==
    IF rest = <<>> THEN Append(parts, cur)
    ELSE IF Head(rest) = DELIM THEN SplitFrom(Append(parts, cur), <<>>, Tail(rest))
    ELSE SplitFrom(parts, Append(cur, Head(rest)), Tail(rest))

Split(s) == SplitFrom(<<>>, <<>>, s)

RECURSIVE Join(_)
Join(parts) ==
    IF Len(parts) = 0 THEN <<>>
    ELSE IF Len(parts) = 1 THEN parts[1]
    ELSE parts[1] \o <<DELIM>> \o Join(Tail(parts))

DigitVal == ("0" :> 0) @@ ("1" :> 1) @@ ("2" :> 2) @@ ("3" :> 3) @@ ("4" :> 4)
            @@ ("5" :> 5) @@ ("6" :> 6) @@ ("7" :> 7) @@ ("8" :> 8) @@ ("9" :> 9)

IsDigit(c) == c \in DOMAIN DigitVal

RECURSIVE StripLeft(_)
StripLeft(s) == IF s # <<>> /\ Head(s) = " " THEN StripLeft(Tail(s)) ELSE s

RECURSIVE StripRight(_)
StripRight(s) ==
    IF s # <<>> /\ s[Len(s)] = " " THEN StripRight(SubSeq(s, 1, Len(s) - 1)) ELSE s

Strip(s) == StripRight(StripLeft(s))

Unsigned(s) == IF s # <<>> /\ Head(s) \in {"+", "-"} THEN Tail(s) ELSE s

RECURSIVE DigitsValue(_, _)
DigitsValue(acc, s) ==
    IF s = <<>> THEN acc ELSE DigitsValue(acc * 10 + DigitVal[Head(s)], Tail(s))

\* int(s) returns iff s, stripped of surrounding blanks and of one leading
\* sign, is a non-empty run of digits; otherwise it raises ValueError.
IntParses(s) ==
    LET u == Unsigned(Strip(s))
    IN u # <<>> /\ \A k \in 1..Len(u) : IsDigit(u[k])

IntValue(s) ==
    LET t == Strip(s)
        u == Unsigned(t)
    IN IF Head(t) = "-" THEN 0 - DigitsValue(0, u) ELSE DigitsValue(0, u)

DigitChar == <<"0", "1", "2", "3", "4", "5", "6", "7", "8", "9">>

RECURSIVE StrNat(_)
StrNat(n) ==
    IF n < 10 THEN <<DigitChar[n + 1]>>
    ELSE StrNat(n \div 10) \o <<DigitChar[(n % 10) + 1]>>

\* str(n) of an integer: its decimal digits, no leading zero, "-" if negative
Str(n) == IF n < 0 THEN <<"-">> \o StrNat(0 - n) ELSE StrNat(n)

(***************************************************************************)
(* PriceElement, parse_price_key, build_price_items                        *)
(***************************************************************************)
PriceElement(key, product, variant, deductible) ==
    [key |-> key, product |-> product, variant |-> variant, deductible |-> deductible]

IsLimitedCasco(parts) ==
    /\ Len(parts) = 4
    /\ parts[1] = <<"limited">>
    /\ parts[2] = <<"casco">>

\* parse_price_key returns iff the key has one of the two shapes and its
\* last token is an integer literal; otherwise it raises ValueError.
ParseOk(input_key) ==
    LET parts == Split(input_key)
    IN \/ IsLimitedCasco(parts) /\ IntParses(parts[4])
       \/ ~IsLimitedCasco(parts) /\ Len(parts) = 3 /\ IntParses(parts[3])

parse_price_key(input_key) ==
    LET parts == Split(input_key)
    IN IF IsLimitedCasco(parts)
       THEN PriceElement(input_key, LIMITED_CASCO, Some(parts[3]), Some(IntValue(parts[4])))
       ELSE PriceElement(input_key, parts[1], Some(parts[2]), Some(IntValue(parts[3])))

BuildOne(input_key) ==
    IF input_key \in core_product
    THEN PriceElement(input_key, input_key, NoneStr, NoneInt)
    ELSE parse_price_key(input_key)

BuildOk(keys) ==
    \A k \in 1..Len(keys) : keys[k] \in core_product \/ ParseOk(keys[k])

build_price_items(keys) == [k \in 1..Len(keys) |-> BuildOne(keys[k])]

(***************************************************************************)
(* detect_inconsistencies                                                  *)
(***************************************************************************)
\* One report line: f"{rule}: '{cheaper}' ({cheaper_price}) should be
\* cheaper than '{other}' ({other_price})."
Line(rule, cheaper, cheaper_price, other, other_price) ==
    <<rule, cheaper, cheaper_price, other, other_price>>

SameProductNonCore(a, b) ==
    /\ a.product = b.product
    /\ a.product \notin core_product
    /\ b.product \notin core_product

\* Lookups of every rank of both items, whatever the pair.
DetectPairRaises_eager(a, b) ==
    \/ ~KnownProduct(a.product)
    \/ ~KnownProduct(b.product)
    \/ ~KnownVariant(a.variant)
    \/ ~KnownVariant(b.variant)
    \/ ~KnownDeductible(a.deductible)
    \/ ~KnownDeductible(b.deductible)

\* The rank lookups detect_inconsistencies performs for the pair (a, b):
\* the product ranks always, the variant ranks only inside the variant
\* block, the deductible ranks only inside the deductible block.
DetectPairRaises(a, b) ==
    \/ ~KnownProduct(a.product)
    \/ ~KnownProduct(b.product)
    \/ /\ SameProductNonCore(a, b)
       /\ a.deductible = b.deductible
       /\ ~(KnownVariant(a.variant) /\ KnownVariant(b.variant))
    \/ /\ SameProductNonCore(a, b)
       /\ a.variant = b.variant
       /\ ~(KnownDeductible(a.deductible) /\ KnownDeductible(b.deductible))

ProductOrderLines(a, b, prices) ==
    LET pa == get_product_rank(a.product)
        pb == get_product_rank(b.product)
        lower == IF pa < pb THEN a ELSE b
        higher == IF pa < pb THEN b ELSE a
    IN IF pa # pb /\ lower.product \in core_product /\ prices[lower.key] >= prices[higher.key]
       THEN << Line("PRODUCT ORDER", lower.key, prices[lower.key], higher.key, prices[higher.key]) >>
       ELSE <<>>

CrossProductLines(a, b, prices) ==
    LET pa2 == get_product_rank(a.product)
        pb2 == get_product_rank(b.product)
        lower_p == IF pa2 < pb2 THEN a ELSE b
        higher_p == IF pa2 < pb2 THEN b ELSE a
    IN IF /\ a.product # b.product
          /\ a.product \notin core_product
          /\ b.product \notin core_product
          /\ a.variant = b.variant
          /\ a.deductible = b.deductible
          /\ prices[lower_p.key] >= prices[higher_p.key]
       THEN << Line("PRODUCT ORDER (same variant+deductible)", lower_p.key,
                    prices[lower_p.key], higher_p.key, prices[higher_p.key]) >>
       ELSE <<>>

\* The variant rule with a strict comparison in place of line 169's >=.
VariantOrderLines_strict(a, b, prices) ==
    IF SameProductNonCore(a, b) /\ a.deductible = b.deductible
    THEN LET va == get_variant_rank(a.variant)
             vb == get_variant_rank(b.variant)
             lower_v == IF va < vb THEN a ELSE b
             higher_v == IF va < vb THEN b ELSE a
         IN IF va # vb /\ prices[lower_v.key] > prices[higher_v.key]
            THEN << Line("VARIANT ORDER", lower_v.key, prices[lower_v.key],
                         higher_v.key, prices[higher_v.key]) >>
            ELSE <<>>
    ELSE <<>>

VariantOrderLines(a, b, prices) ==
    IF SameProductNonCore(a, b) /\ a.deductible = b.deductible
    THEN LET va == get_variant_rank(a.variant)
             vb == get_variant_rank(b.variant)
             lower_v == IF va < vb THEN a ELSE b
             higher_v == IF va < vb THEN b ELSE a
         IN IF va # vb /\ prices[lower_v.key] >= prices[higher_v.key]
            THEN << Line("VARIANT ORDER", lower_v.key, prices[lower_v.key],
                         higher_v.key, prices[higher_v.key]) >>
            ELSE <<>>
    ELSE <<>>

DeductibleOrderLines(a, b, prices) ==
    IF SameProductNonCore(a, b) /\ a.variant = b.variant
    THEN LET da == get_deductible_rank(a.deductible)
             db == get_deductible_rank(b.deductible)
             lower_d == IF da < db THEN a ELSE b
             higher_d == IF da < db THEN b ELSE a
         IN IF da # db /\ prices[higher_d.key] >= prices[lower_d.key]
            THEN << Line("DEDUCTIBLE ORDER", higher_d.key, prices[higher_d.key],
                         lower_d.key, prices[lower_d.key]) >>
            ELSE <<>>
    ELSE <<>>

DetectPairLines(a, b, prices) ==
    ProductOrderLines(a, b, prices) \o CrossProductLines(a, b, prices)
        \o VariantOrderLines(a, b, prices) \o DeductibleOrderLines(a, b, prices)

RECURSIVE DetectFrom(_, _, _, _, _)
\* The two nested loops, from pair (i, j) on, with the report so far.
DetectFrom(items, prices, i, j, report) ==
    IF i > Len(items) THEN [status |-> "ok", lines |-> report]
    ELSE IF j > Len(items) THEN DetectFrom(items, prices, i + 1, i + 2, report)
    ELSE IF DetectPairRaises(items[i], items[j]) THEN [status |-> "KeyError", lines |-> <<>>]
    ELSE DetectFrom(items, prices, i, j + 1,
                    report \o DetectPairLines(items[i], items[j], prices))

detect_inconsistencies(items, prices) == DetectFrom(items, prices, 1, 2, <<>>)

(***************************************************************************)
(* Arithmetic of the repair.  A float factor is the exact quotient num/den *)
(* and int(round(x)) rounds the exact product half to even.                *)
(***************************************************************************)
Range(f) == {f[x] : x \in DOMAIN f}

RoundHalfEven(num, den) ==
    LET q == num \div den
        r == num % den
    IN IF 2 * r < den THEN q
       ELSE IF 2 * r > den THEN q + 1
       ELSE IF q % 2 = 0 THEN q ELSE q + 1

RECURSIVE Pow(_, _)
Pow(b, e) == IF e = 0 THEN 1 ELSE b * Pow(b, e - 1)

(***************************************************************************)
(* Helpers of fix_products_inplace                                         *)
(***************************************************************************)
\* A predicate over items (a lambda of the program) is given as the set of
\* the items that satisfy it.
group_items(items, predicate) == SelectSeq(items, LAMBDA it : it \in predicate)

RECURSIVE MaxFrom(_, _, _, _, _)
\* mx is the option value of the loop variable of the same name
MaxFrom(items, prices, predicate, k, mx) ==
    IF k > Len(items) THEN mx
    ELSE IF items[k] \in predicate
         THEN LET p == prices[items[k].key]
              IN MaxFrom(items, prices, predicate, k + 1,
                         IF ~mx.some THEN Some(p) ELSE IF mx.v >= p THEN mx ELSE Some(p))
         ELSE MaxFrom(items, prices, predicate, k + 1, mx)

max_price_in_group(items, prices, predicate) == MaxFrom(items, prices, predicate, 1, NoneInt)

RECURSIVE MinFrom(_, _, _, _, _)
MinFrom(items, prices, predicate, k, mn) ==
    IF k > Len(items) THEN mn
    ELSE IF items[k] \in predicate
         THEN LET p == prices[items[k].key]
              IN MinFrom(items, prices, predicate, k + 1,
                         IF ~mn.some THEN Some(p) ELSE IF mn.v <= p THEN mn ELSE Some(p))
         ELSE MinFrom(items, prices, predicate, k + 1, mn)

min_price_in_group(items, prices, predicate) == MinFrom(items, prices, predicate, 1, NoneInt)

\* The result of a helper that writes prices: the table after it and the
\* flag it returns.
Written(prices, changed) == [prices |-> prices, changed |-> changed]

RECURSIVE ScaleFrom(_, _, _, _, _, _, _)
ScaleFrom(items, prices, product, num, den, k, changed) ==
    IF k > Len(items) THEN Written(prices, changed)
    ELSE LET it == items[k]
             new_val == RoundHalfEven(prices[it.key] * num, den)
         IN IF it.product = product /\ new_val # prices[it.key]
            THEN ScaleFrom(items, [prices EXCEPT ![it.key] = new_val], product, num, den,
                           k + 1, TRUE)
            ELSE ScaleFrom(items, prices, product, num, den, k + 1, changed)

\* factor = num / den
scale_product(items, prices, product, num, den) ==
    ScaleFrom(items, prices, product, num, den, 1, FALSE)

RECURSIVE ScheduleFrom(_, _, _, _, _, _, _)
\* new_price = int(round(base * (step ** (r - 1)))), step = snum / sden;
\* kind says which rank r is: the deductible's or the variant's.
ScheduleFrom(group, prices, base, kind, snum, sden, k) ==
    IF k > Len(group) THEN Written(prices, FALSE)
    ELSE LET it == group[k]
             r == IF kind = "deductible" THEN get_deductible_rank(it.deductible)
                  ELSE get_variant_rank(it.variant)
             new_price == RoundHalfEven(base * Pow(snum, r - 1), Pow(sden, r - 1))
             rest == ScheduleFrom(group, [prices EXCEPT ![it.key] = new_price], base, kind,
                                  snum, sden, k + 1)
         IN Written(rest.prices, rest.changed \/ new_price # prices[it.key])

\* The schedule with the step inverted (10/9 per tier instead of 9/10).
apply_deductible_schedule_rising(group, prices, base) ==
    ScheduleFrom(group, prices, base, "deductible", 10, 9, 1)

\* 0.9 = 9/10
apply_deductible_schedule(group, prices, base) ==
    ScheduleFrom(group, prices, base, "deductible", 9, 10, 1)

\* The schedule without a markup (step 1 per tier instead of 1.07).
apply_variant_schedule_flat(group, prices, base) ==
    ScheduleFrom(group, prices, base, "variant", 1, 1, 1)

\* 1.07 = 107/100
apply_variant_schedule(group, prices, base) ==
    ScheduleFrom(group, prices, base, "variant", 107, 100, 1)

(***************************************************************************)
(* One pair of the scan of fix_products_inplace (src/modified_version.py)  *)
(***************************************************************************)
\* What the body of the inner loop does for one pair: status is "ok" or the
\* exception raised, prices the table after it, changed what it or-s into
\* the changed flag, wrote whether it assigned some price a new value, and
\* action the branch taken.
Outcome(status, prices, changed, wrote, action) ==
    [status |-> status, prices |-> prices, changed |-> changed, wrote |-> wrote,
     action |-> action]

\* avg_prices.get(product)
AvgGet(avg_prices, product) ==
    IF product \in DOMAIN avg_prices THEN Some(avg_prices[product]) ELSE NoneInt

\* The rank lookups at the head of the loop body.
FixLookupsRaise(a, b) ==
    \/ ~KnownProduct(a.product)
    \/ ~KnownProduct(b.product)
    \/ ~is_core_product(a.product) /\ ~KnownVariant(a.variant)
    \/ ~is_core_product(b.product) /\ ~KnownVariant(b.variant)
    \/ ~is_core_product(a.product) /\ ~KnownDeductible(a.deductible)
    \/ ~is_core_product(b.product) /\ ~KnownDeductible(b.deductible)

\* The rounded target less one.
Target_below(lower_price, avg_high, avg_low) ==
    RoundHalfEven(lower_price * avg_high, avg_low) - 1

\* lower_price * ratio, rounded; ratio = avg_high / avg_low
Target(lower_price, avg_high, avg_low) == RoundHalfEven(lower_price * avg_high, avg_low)

CrossProductAction(items, prices, lower, higher, avg_high, avg_low) ==
    LET old_h == prices[higher.key]
        new_h == Target(prices[lower.key], avg_high, avg_low)
    IN IF old_h # 0
       THEN LET w == scale_product(items, [prices EXCEPT ![higher.key] = new_h],
                                   higher.product, new_h, old_h)
            IN Outcome("ok", w.prices, w.changed, w.changed \/ new_h # old_h, "cross")
       ELSE Outcome("ok", prices, FALSE, FALSE, "zero_divisor")

\* The core action on the item of the pair alone, the product's other items
\* left as they are.
CoreAction_pair_only(items, prices, lower, higher, avg_high, avg_low) ==
    LET new_min == Target(prices[lower.key], avg_high, avg_low)
    IN Outcome("ok", [prices EXCEPT ![higher.key] = new_min], new_min # prices[higher.key],
               new_min # prices[higher.key], "core")

CoreAction(items, prices, lower, higher, avg_high, avg_low) ==
    LET InHigher == {it \in Range(items) : it.product = higher.product}
        old_min == min_price_in_group(items, prices, InHigher)
        new_min == Target(prices[lower.key], avg_high, avg_low)
    IN IF old_min.some /\ old_min.v # 0
       THEN LET w == scale_product(items, prices, higher.product, new_min, old_min.v)
            IN Outcome("ok", w.prices, w.changed, w.changed, "core")
       ELSE Outcome("ok", prices, FALSE, FALSE, "zero_divisor")

\* The comparison of line 271 with > for >=.
OutOfOrder_strict(lower_price, higher_price) == lower_price > higher_price

\* lower_price >= higher_price (line 271)
OutOfOrder(lower_price, higher_price) == lower_price >= higher_price

ProductBranch(items, prices, avg_prices, a, b) ==
    LET pa == get_product_rank(a.product)
        pb == get_product_rank(b.product)
        lower == IF pa < pb THEN a ELSE b
        higher == IF pa < pb THEN b ELSE a
        lower_is_core == is_core_product(lower.product)
        higher_is_core == is_core_product(higher.product)
        avg_low == AvgGet(avg_prices, lower.product)
        avg_high == AvgGet(avg_prices, higher.product)
    IN IF ~avg_low.some \/ ~avg_high.some \/ avg_low.v = 0
       THEN Outcome("ok", prices, FALSE, FALSE, "no_anchor")
       ELSE IF OutOfOrder(prices[lower.key], prices[higher.key])
            THEN IF /\ ~lower_is_core
                    /\ ~higher_is_core
                    /\ lower.variant = higher.variant
                    /\ lower.deductible = higher.deductible
                 THEN CrossProductAction(items, prices, lower, higher, avg_high.v, avg_low.v)
                 ELSE IF lower_is_core /\ ~higher_is_core
                      THEN CoreAction(items, prices, lower, higher, avg_high.v, avg_low.v)
                      ELSE Outcome("ok", prices, FALSE, FALSE, "none")
            ELSE Outcome("ok", prices, FALSE, FALSE, "none")

\* The condition of line 288: equal variant RANKS, different deductible ranks.
DeductibleCase(a, b) ==
    /\ ~is_core_product(a.product)
    /\ ~is_core_product(b.product)
    /\ get_variant_rank(a.variant) = get_variant_rank(b.variant)
    /\ get_deductible_rank(a.deductible) # get_deductible_rank(b.deductible)

\* The condition of line 302.
VariantCase(a, b) ==
    /\ ~is_core_product(a.product)
    /\ ~is_core_product(b.product)
    /\ get_deductible_rank(a.deductible) = get_deductible_rank(b.deductible)
    /\ get_variant_rank(a.variant) # get_variant_rank(b.variant)

DeductibleAction(items, prices, a, b) ==
    LET da == get_deductible_rank(a.deductible)
        db == get_deductible_rank(b.deductible)
        lower_d == IF da < db THEN a ELSE b
        higher_d == IF da < db THEN b ELSE a
        InGroup == {it \in Range(items) : /\ it.product = a.product
                                           /\ ~is_core_product(it.product)
                                           /\ it.variant = a.variant}
        group == group_items(items, InGroup)
        RankOne == {it \in Range(group) : get_deductible_rank(it.deductible) = 1}
    IN IF prices[lower_d.key] <= prices[higher_d.key]
       THEN IF \E k \in 1..Len(group) : ~KnownDeductible(group[k].deductible)
            THEN Outcome("KeyError", prices, FALSE, FALSE, "raise")
            ELSE LET base == max_price_in_group(group, prices, RankOne)
                 IN IF base.some
                    THEN LET w == apply_deductible_schedule(group, prices, base.v)
                         IN Outcome("ok", w.prices, w.changed, w.changed, "deductible")
                    ELSE Outcome("ok", prices, FALSE, FALSE, "no_base")
       ELSE Outcome("ok", prices, FALSE, FALSE, "none")

VariantAction(items, prices, a, b) ==
    LET va == get_variant_rank(a.variant)
        vb == get_variant_rank(b.variant)
        lower_v == IF va < vb THEN a ELSE b
        higher_v == IF va < vb THEN b ELSE a
        InGroup == {it \in Range(items) : /\ it.product = a.product
                                           /\ ~is_core_product(it.product)
                                           /\ it.deductible = a.deductible}
        group == group_items(items, InGroup)
        RankOne == {it \in Range(group) : get_variant_rank(it.variant) = 1}
    IN IF prices[lower_v.key] >= prices[higher_v.key]
       THEN IF \E k \in 1..Len(group) : ~KnownVariant(group[k].variant)
            THEN Outcome("KeyError", prices, FALSE, FALSE, "raise")
            ELSE LET base == max_price_in_group(group, prices, RankOne)
                 IN IF base.some
                    THEN LET w == apply_variant_schedule(group, prices, base.v)
                         IN Outcome("ok", w.prices, w.changed, w.changed, "variant")
                    ELSE Outcome("ok", prices, FALSE, FALSE, "no_base")
       ELSE Outcome("ok", prices, FALSE, FALSE, "none")

SameRankBranch(items, prices, a, b) ==
    IF DeductibleCase(a, b) THEN DeductibleAction(items, prices, a, b)
    ELSE IF VariantCase(a, b) THEN VariantAction(items, prices, a, b)
    ELSE Outcome("ok", prices, FALSE, FALSE, "none")

FixPair(items, prices, avg_prices, a, b) ==
    IF FixLookupsRaise(a, b) THEN Outcome("KeyError", prices, FALSE, FALSE, "raise")
    ELSE IF get_product_rank(a.product) # get_product_rank(b.product)
         THEN ProductBranch(items, prices, avg_prices, a, b)
         ELSE SameRankBranch(items, prices, a, b)

(***************************************************************************)
(* One pair of the scan of fix_products_inplace (src/main.py)              *)
(***************************************************************************)
\* The locals lower_is_core and higher_is_core keep the value the last
\* product-order pair gave them; before the first such pair they are unbound.
Flag(b) == IF b THEN "yes" ELSE "no"

MainOutcome(o, lower_is_core, higher_is_core) ==
    [status |-> o.status, prices |-> o.prices, changed |-> o.changed, wrote |-> o.wrote,
     action |-> o.action, lower_is_core |-> lower_is_core, higher_is_core |-> higher_is_core]

MainProductBranch(items, prices, avg_prices, a, b) ==
    LET pa == get_product_rank(a.product)
        pb == get_product_rank(b.product)
        lower == IF pa < pb THEN a ELSE b
        higher == IF pa < pb THEN b ELSE a
        lower_is_core == lower.product \in core_product
        higher_is_core == higher.product \in core_product
        avg_low == AvgGet(avg_prices, lower.product)
        avg_high == AvgGet(avg_prices, higher.product)
        InHigher == {it \in Range(items) : it.product = higher.product}
        old_h == prices[higher.key]
        old_min == min_price_in_group(items, prices, InHigher)
        new_h == Target(prices[lower.key], avg_high.v, avg_low.v)
    IN IF ~avg_low.some \/ ~avg_high.some
       THEN Outcome("TypeError", prices, FALSE, FALSE, "raise")
       ELSE IF avg_low.v = 0
       THEN Outcome("ZeroDivisionError", prices, FALSE, FALSE, "raise")
       ELSE IF prices[lower.key] >= prices[higher.key]
            THEN IF /\ ~lower_is_core
                    /\ ~higher_is_core
                    /\ lower.variant = higher.variant
                    /\ lower.deductible = higher.deductible
                 THEN IF old_h = 0
                      THEN Outcome("ZeroDivisionError", prices, FALSE, FALSE, "raise")
                      ELSE Outcome("ok", [prices EXCEPT ![higher.key] = new_h], FALSE,
                                   new_h # old_h, "cross")
                 ELSE IF lower_is_core /\ ~higher_is_core
                      THEN IF old_min.v = 0
                           THEN Outcome("ZeroDivisionError", prices, FALSE, FALSE, "raise")
                           ELSE LET w == scale_product(items, prices, higher.product,
                                                       new_h, old_min.v)
                                IN Outcome("ok", w.prices, FALSE, w.changed, "core")
                      ELSE Outcome("ok", prices, FALSE, FALSE, "none")
            ELSE Outcome("ok", prices, FALSE, FALSE, "none")

MainDeductibleAction(items, prices, a, b) ==
    LET o == DeductibleAction(items, prices, a, b)
    IN IF o.action = "no_base"
       THEN Outcome("TypeError", prices, FALSE, FALSE, "raise")
       ELSE o

MainSameRankBranch(items, prices, a, b, lower_is_core, higher_is_core) ==
    IF lower_is_core = "unbound"
    THEN Outcome("UnboundLocalError", prices, FALSE, FALSE, "raise")
    ELSE IF is_core_product(a.product) \/ lower_is_core = "yes" \/ higher_is_core = "yes"
    THEN Outcome("ok", prices, FALSE, FALSE, "none")
    ELSE IF DeductibleCase(a, b) THEN MainDeductibleAction(items, prices, a, b)
    ELSE IF VariantCase(a, b) THEN VariantAction(items, prices, a, b)
    ELSE Outcome("ok", prices, FALSE, FALSE, "none")

MainFixPair(items, prices, avg_prices, a, b, lower_is_core, higher_is_core) ==
    IF FixLookupsRaise(a, b)
    THEN MainOutcome(Outcome("KeyError", prices, FALSE, FALSE, "raise"),
                     lower_is_core, higher_is_core)
    ELSE LET pa == get_product_rank(a.product)
             pb == get_product_rank(b.product)
         IN IF pa # pb
            THEN MainOutcome(MainProductBranch(items, prices, avg_prices, a, b),
                             Flag((IF pa < pb THEN a ELSE b).product \in core_product),
                             Flag((IF pa < pb THEN b ELSE a).product \in core_product))
            ELSE MainOutcome(MainSameRankBranch(items, prices, a, b,
                                                lower_is_core, higher_is_core),
                             lower_is_core, higher_is_core)

(***************************************************************************)
(* Bounded inputs                                                          *)
(***************************************************************************)
MaxPrice == 2
HighPrice == 10
MaxIters == 2
MaxCalls == 2
DefaultMaxIters == 10

D100 == <<"1", "0", "0">>
D200 == <<"2", "0", "0">>
D500 == <<"5", "0", "0">>

Key(product, variant, digits) == product \o <<DELIM>> \o variant \o <<DELIM>> \o digits

\* Tables whose keys build_price_items accepts and whose ranks are known.
ValidTables ==
    { <<MTPL, Key(CASCO, COMPACT, D100)>>,
      <<Key(CASCO, COMPACT, D100), MTPL>>,
      <<Key(LIMITED_CASCO, BASIC, D100), Key(LIMITED_CASCO, COMFORT, D100)>>,
      <<Key(CASCO, COMFORT, D100), Key(CASCO, PREMIUM, D100)>>,
      <<Key(CASCO, COMPACT, D200), Key(CASCO, COMPACT, D500)>>,
      <<Key(CASCO, COMPACT, D100), Key(CASCO, COMPACT, D200), Key(CASCO, BASIC, D200)>>,
      <<Key(LIMITED_CASCO, COMPACT, D100), Key(CASCO, COMPACT, D100),
        Key(CASCO, COMPACT, D200)>>,
      <<MTPL, Key(LIMITED_CASCO, COMPACT, D100), Key(CASCO, COMPACT, D100)>>,
      <<Key(CASCO, BASIC, D100), Key(CASCO, PREMIUM, D100), Key(CASCO, BASIC, D500)>>,
      <<Key(LIMITED_CASCO, COMPACT, D100), Key(CASCO, COMPACT, D100)>>,
      <<Key(CASCO, PREMIUM, D200), Key(CASCO, BASIC, D200), Key(CASCO, PREMIUM, D100)>>,
      <<MTPL, Key(CASCO, COMPACT, D200), Key(CASCO, COMPACT, D100)>>,
      <<MTPL>> }

\* Tables with a product, variant or deductible absent from its rank table.
UnknownRankTables ==
    { <<MTPL, Key(CASCO, <<"gold">>, D100)>>,
      <<Key(CASCO, <<"gold">>, D100)>>,
      <<Key(CASCO, COMPACT, <<"3", "0", "0">>), Key(CASCO, BASIC, D100)>>,
      <<Key(<<"bike">>, COMPACT, D100), MTPL>>,
      <<Key(CASCO, COMPACT, D100), Key(CASCO, COMPACT, D200),
        Key(CASCO, COMPACT, <<"3", "0", "0">>)>>,
      <<LIMITED_CASCO \o <<DELIM>> \o D100, MTPL>>,
      <<Key(MTPL, <<"gold">>, D100), MTPL>> }

\* Tables with a key of another shape.
OddKeyTables ==
    { <<CASCO \o <<DELIM>> \o D100>>,
      <<MTPL, Key(CASCO, COMPACT, <<"abc">>)>>,
      <<Key(MTPL, BASIC, D100), MTPL>>,
      <<Key(CASCO, COMPACT, <<"0", "1", "0", "0">>), Key(CASCO, COMPACT, D200)>>,
      <<Key(CASCO, <<>>, D100)>> }

Tables == ValidTables \cup UnknownRankTables \cup OddKeyTables

PriceValues == (1..MaxPrice) \cup {HighPrice}

AvgTables ==
    { (MTPL :> 4) @@ (LIMITED_CASCO :> 8) @@ (CASCO :> 9),
      (MTPL :> 4) @@ (LIMITED_CASCO :> 4) @@ (CASCO :> 1),
      (MTPL :> 4) @@ (LIMITED_CASCO :> 8),
      (MTPL :> 0) @@ (LIMITED_CASCO :> 8) @@ (CASCO :> 9),
      (MTPL :> 1) @@ (LIMITED_CASCO :> 8) @@ (CASCO :> 2),
      (LIMITED_CASCO :> 8) }

Budgets == (1..MaxIters) \cup {DefaultMaxIters}

(***************************************************************************)
(* State                                                                   *)
(***************************************************************************)
VARIABLES
    keys,            \* the price table's keys, in insertion order
    prices,          \* the price table: key -> price
    avg_prices,      \* the average-price table: product -> reference price
    max_iters,       \* the iteration budget
    items,           \* the PriceElement list built from the keys
    pc,              \* "start", "ready", "scan" or "raised"
    err,             \* the exception that ended the run, or "none"
    report,          \* the last report of detect_inconsistencies on prices
    iter,            \* the iteration of the repair loop, from 1
    i, j,            \* the pair the scan is at
    changed,         \* the changed flag of the iteration
    lower_is_core,   \* locals of the repair loop of src/main.py
    higher_is_core,
    calls,           \* the number of fix_products_inplace calls started
    exit,            \* how the last call returned: "break" or "exhausted"
    prior,           \* history: how the call before the running or last one returned
    before,          \* history: prices when the running or last call started
    prev,            \* history: prices before the last pair step
    last,            \* history: the last pair step (its branch and its pair)
    wrote            \* history: some price got a new value in this iteration

vars == <<keys, prices, avg_prices, max_iters, items, pc, err, report, iter, i, j,
          changed, lower_is_core, higher_is_core, calls, exit, prior, before, prev, last,
          wrote>>

NoReport == [valid |-> FALSE, lines |-> <<>>]
NoStep == [action |-> "none", i |-> 0, j |-> 0]

Init ==
    /\ keys \in Tables
    /\ prices \in [Range(keys) -> PriceValues]
    /\ avg_prices \in AvgTables
    /\ max_iters \in Budgets
    /\ items = <<>>
    /\ pc = "start"
    /\ err = "none"
    /\ report = NoReport
    /\ iter = 0
    /\ i = 0
    /\ j = 0
    /\ changed = FALSE
    /\ lower_is_core = "unbound"
    /\ higher_is_core = "unbound"
    /\ calls = 0
    /\ exit = "none"
    /\ prior = "none"
    /\ before = prices
    /\ prev = prices
    /\ last = NoStep
    /\ wrote = FALSE

\* The caller derives the items from the table's keys.
Build ==
    /\ pc = "start"
    /\ IF BuildOk(keys)
       THEN /\ items' = build_price_items(keys)
            /\ pc' = "ready"
            /\ err' = err
       ELSE /\ items' = items
            /\ pc' = "raised"
            /\ err' = "ValueError"
    /\ UNCHANGED <<keys, prices, avg_prices, max_iters, report, iter, i, j, changed,
                   lower_is_core, higher_is_core, calls, exit, prior, before, prev, last,
                   wrote>>

\* A call of detect_inconsistencies(items, prices).
Detect ==
    /\ pc = "ready"
    /\ ~report.valid
    /\ LET r == detect_inconsistencies(items, prices)
       IN IF r.status = "ok"
          THEN /\ report' = [valid |-> TRUE, lines |-> r.lines]
               /\ pc' = pc
               /\ err' = err
          ELSE /\ report' = report
               /\ pc' = "raised"
               /\ err' = r.status
    /\ UNCHANGED <<keys, prices, avg_prices, max_iters, items, iter, i, j, changed,
                   lower_is_core, higher_is_core, calls, exit, prior, before, prev, last,
                   wrote>>

\* A call of fix_products_inplace(items, prices, avg_prices, max_iters)
\* enters the first iteration.
StartFix ==
    /\ pc = "ready"
    /\ calls < MaxCalls
    /\ pc' = "scan"
    /\ calls' = calls + 1
    /\ iter' = 1
    /\ i' = 1
    /\ j' = 2
    /\ changed' = FALSE
    /\ wrote' = FALSE
    /\ lower_is_core' = "unbound"
    /\ higher_is_core' = "unbound"
    /\ exit' = "none"
    /\ prior' = exit
    /\ before' = prices
    /\ prev' = prices
    /\ last' = NoStep
    /\ report' = NoReport
    /\ UNCHANGED <<keys, prices, avg_prices, max_iters, items, err>>

\* The scan moves to the next pair (i, j) with i < j.
Advance ==
    IF j < Len(items)
    THEN i' = i /\ j' = j + 1
    ELSE i' = i + 1 /\ j' = i + 2

Step(o) ==
    /\ prev' = prices
    /\ last' = [action |-> o.action, i |-> i, j |-> j]
    /\ IF o.status = "ok"
       THEN /\ prices' = o.prices
            /\ changed' = (changed \/ o.changed)
            /\ wrote' = (wrote \/ o.wrote)
            /\ pc' = pc
            /\ err' = err
            /\ Advance
       ELSE /\ prices' = prices
            /\ pc' = "raised"
            /\ err' = o.status
            /\ UNCHANGED <<changed, wrote, i, j>>

\* The body of the inner loop for the pair (i, j), src/modified_version.py.
ScanPair ==
    /\ pc = "scan"
    /\ j <= Len(items)
    /\ Step(FixPair(items, prices, avg_prices, items[i], items[j]))
    /\ UNCHANGED <<keys, avg_prices, max_iters, items, report, iter, lower_is_core,
                   higher_is_core, calls, exit, prior, before>>

\* The body of the inner loop for the pair (i, j), src/main.py.
MainScanPair ==
    /\ pc = "scan"
    /\ j <= Len(items)
    /\ LET o == MainFixPair(items, prices, avg_prices, items[i], items[j],
                            lower_is_core, higher_is_core)
       IN /\ Step(o)
          /\ lower_is_core' = o.lower_is_core
          /\ higher_is_core' = o.higher_is_core
    /\ UNCHANGED <<keys, avg_prices, max_iters, items, report, iter, calls, exit, prior,
                   before>>

\* The end of one iteration: break when nothing changed, return when the
\* budget is used up, otherwise scan again.
EndIteration ==
    /\ pc = "scan"
    /\ j > Len(items)
    /\ IF ~changed
       THEN pc' = "ready" /\ exit' = "break" /\ UNCHANGED <<iter, i, j, changed, wrote>>
       ELSE IF iter = max_iters
       THEN pc' = "ready" /\ exit' = "exhausted" /\ UNCHANGED <<iter, i, j, changed, wrote>>
       ELSE /\ pc' = pc
            /\ exit' = exit
            /\ iter' = iter + 1
            /\ i' = 1
            /\ j' = 2
            /\ changed' = FALSE
            /\ wrote' = FALSE
    /\ UNCHANGED <<keys, prices, avg_prices, max_iters, items, err, report,
                   lower_is_core, higher_is_core, calls, prior, before, prev, last>>

Next == Build \/ Detect \/ StartFix \/ ScanPair \/ EndIteration

Spec == Init /\ [][Next]_vars

MainNext == Build \/ Detect \/ StartFix \/ MainScanPair \/ EndIteration

MainSpec == Init /\ [][MainNext]_vars

(***************************************************************************)
(* Properties                                                              *)
(***************************************************************************)
\* fix_products_inplace has returned (normally) at least once.
Returned == pc = "ready" /\ exit # "none"

Idx == 1..Len(items)

NonCoreItem(x) == ~is_core_product(items[x].product)

\* x and y are in one (product, variant) group, x at the lower deductible rank.
DeductiblePair(x, y) ==
    /\ items[x].product = items[y].product
    /\ items[x].variant = items[y].variant
    /\ KnownDeductible(items[x].deductible)
    /\ KnownDeductible(items[y].deductible)
    /\ get_deductible_rank(items[x].deductible) < get_deductible_rank(items[y].deductible)

\* x and y are in one (product, deductible) group, x at the lower variant rank.
VariantPair(x, y) ==
    /\ items[x].product = items[y].product
    /\ items[x].deductible = items[y].deductible
    /\ KnownVariant(items[x].variant)
    /\ KnownVariant(items[y].variant)
    /\ get_variant_rank(items[x].variant) < get_variant_rank(items[y].variant)

\* The (product, variant) group of x holds an item of deductible rank 1.
HasDeductibleBase(x) ==
    \E z \in Idx : /\ items[z].product = items[x].product
                   /\ items[z].variant = items[x].variant
                   /\ KnownDeductible(items[z].deductible)
                   /\ get_deductible_rank(items[z].deductible) = 1

\* The (product, deductible) group of x holds an item of variant rank 1.
HasVariantBase(x) ==
    \E z \in Idx : /\ items[z].product = items[x].product
                   /\ items[z].deductible = items[x].deductible
                   /\ KnownVariant(items[z].variant)
                   /\ get_variant_rank(items[z].variant) = 1

\* C1 as stated: after fix_products_inplace returns, in every (product,
\* variant) group the price does not increase with the deductible rank and
\* in every (product, deductible) group it does not decrease with the
\* variant rank.
C1_AsStated ==
    Returned =>
        \A x, y \in Idx :
            /\ DeductiblePair(x, y) => prices[items[x].key] >= prices[items[y].key]
            /\ VariantPair(x, y) => prices[items[x].key] <= prices[items[y].key]

\* C1 amended: when fix_products_inplace (src/modified_version.py) returns
\* through its break (the last scan left changed false), the price does not
\* increase with the deductible rank in every (product, variant) group of a
\* non-core product that holds an item of deductible rank 1, and does not
\* decrease with the variant rank in every (product, deductible) group of a
\* non-core product that holds an item of variant rank 1.
C1_MonotoneAtFixedPoint ==
    (Returned /\ exit = "break") =>
        \A x, y \in Idx :
            /\ (NonCoreItem(x) /\ DeductiblePair(x, y) /\ HasDeductibleBase(x))
                   => prices[items[x].key] >= prices[items[y].key]
            /\ (NonCoreItem(x) /\ VariantPair(x, y) /\ HasVariantBase(x))
                   => prices[items[x].key] <= prices[items[y].key]

\* A call that found a deductible pair out of order in a group with a base,
\* rewrote prices and returned through the break.
C1_Witness ==
    /\ Returned
    /\ exit = "break"
    /\ calls = 1
    /\ \E x, y \in Idx :
          /\ NonCoreItem(x)
          /\ DeductiblePair(x, y)
          /\ HasDeductibleBase(x)
          /\ before[items[x].key] < before[items[y].key]
          /\ prices[items[y].key] # before[items[y].key]

\* x is a core item, y a non-core item of a product that outranks it.
CorePair(x, y) ==
    /\ is_core_product(items[x].product)
    /\ ~is_core_product(items[y].product)
    /\ KnownProduct(items[y].product)
    /\ get_product_rank(items[x].product) < get_product_rank(items[y].product)

\* The least price among the items of a product.
MinOfProduct(product) ==
    min_price_in_group(items, prices, {it \in Range(items) : it.product = product})

\* Both anchors of the pair are present and the core's is not zero.
Anchored(x, y) ==
    /\ items[x].product \in DOMAIN avg_prices
    /\ items[y].product \in DOMAIN avg_prices
    /\ avg_prices[items[x].product] # 0

\* C2 as stated: after fix_products_inplace returns, the core product's
\* price is strictly less than the price of every non-core item whose
\* product outranks it.
C2_AsStated ==
    Returned => \A x, y \in Idx : CorePair(x, y) => prices[items[x].key] < prices[items[y].key]

\* C2 amended: when fix_products_inplace (src/modified_version.py) returns
\* through its break, the core price is strictly less than the price of
\* every item of an outranking non-core product P, provided both averages
\* are present, the core's average is not zero, the least price of P is not
\* zero and round(core_price * avg[P] / avg[core]) exceeds the core price.
C2_CoreBelowAnchoredProducts ==
    (Returned /\ exit = "break") =>
        \A x, y \in Idx :
            ( /\ CorePair(x, y)
              /\ Anchored(x, y)
              /\ MinOfProduct(items[y].product).v # 0
              /\ Target(prices[items[x].key], avg_prices[items[y].product],
                        avg_prices[items[x].product]) > prices[items[x].key] )
            => prices[items[x].key] < prices[items[y].key]

\* A call that found the core at or above a non-core item, rescaled the
\* item's product and returned through the break.
C2_Witness ==
    /\ Returned
    /\ exit = "break"
    /\ calls = 1
    /\ \E x, y \in Idx :
          /\ CorePair(x, y)
          /\ Anchored(x, y)
          /\ before[items[x].key] >= before[items[y].key]
          /\ prices[items[x].key] < prices[items[y].key]

\* C3: on a table for which detect_inconsistencies returns the empty
\* report, a following fix_products_inplace call changes no price and
\* stops after its first iteration.
C3_AsStated ==
    LET r == detect_inconsistencies(items, before)
    IN (Returned /\ calls = 1 /\ r.status = "ok" /\ r.lines = <<>>)
           => (prices = before /\ iter = 1)

\* C4: when fix_products_inplace returns through its break, its last
\* iteration modified no price, and a call that follows immediately
\* modifies no price either.
C4_AsStated ==
    /\ (Returned /\ exit = "break") => ~wrote
    /\ (Returned /\ calls = 2 /\ prior = "break") => prices = before

\* The four rules of detect_inconsistencies, by number: under rule r the
\* item c should be cheaper than the item d.
RuleNames ==
    << "PRODUCT ORDER", "PRODUCT ORDER (same variant+deductible)",
       "VARIANT ORDER", "DEDUCTIBLE ORDER" >>

ShouldBeCheaper(r, c, d) ==
    CASE r = 1 -> /\ c.product \in core_product
                  /\ get_product_rank(c.product) < get_product_rank(d.product)
      [] r = 2 -> /\ c.product # d.product
                  /\ c.product \notin core_product
                  /\ d.product \notin core_product
                  /\ c.variant = d.variant
                  /\ c.deductible = d.deductible
                  /\ get_product_rank(c.product) < get_product_rank(d.product)
      [] r = 3 -> /\ c.product = d.product
                  /\ c.product \notin core_product
                  /\ c.deductible = d.deductible
                  /\ get_variant_rank(c.variant) < get_variant_rank(d.variant)
      [] r = 4 -> /\ c.product = d.product
                  /\ c.product \notin core_product
                  /\ c.variant = d.variant
                  /\ get_deductible_rank(c.deductible) > get_deductible_rank(d.deductible)

\* The pair (x, y), x < y, violates rule r with c the item that should be
\* the cheaper one.
Violates(x, y, r, c, d) ==
    /\ {c, d} = {x, y}
    /\ c # d
    /\ ShouldBeCheaper(r, items[c], items[d])
    /\ prices[items[c].key] >= prices[items[d].key]

Violations ==
    {t \in Idx \X Idx \X (1..4) :
        /\ t[1] < t[2]
        /\ \E c, d \in {t[1], t[2]} : Violates(t[1], t[2], t[3], c, d)}

\* The pair enumeration i < j, and within a pair the order of the rules.
Earlier(t, u) ==
    \/ t[1] < u[1]
    \/ t[1] = u[1] /\ t[2] < u[2]
    \/ t[1] = u[1] /\ t[2] = u[2] /\ t[3] < u[3]

RuleLine(t) ==
    LET c == CHOOSE c \in {t[1], t[2]} :
                 \E d \in {t[1], t[2]} : Violates(t[1], t[2], t[3], c, d)
        d == CHOOSE d \in {t[1], t[2]} : d # c
    IN << RuleNames[t[3]], items[c].key, prices[items[c].key],
          items[d].key, prices[items[d].key] >>

\* C5: whenever detect_inconsistencies returns, its report holds exactly one
\* line per violated rule per pair, each naming the rule, the key that
\* should be cheaper with its price and the other key with its price, in the
\* order of the pair enumeration i < j; the report is empty exactly when no
\* pair violates a rule.  (The report is the sequence of lines that the code
\* joins by newline; no line is empty, so the joined string is empty exactly
\* when the sequence is.)
C5_ReportIsTheViolations ==
    report.valid =>
        /\ Len(report.lines) = Cardinality(Violations)
        /\ \A t \in Violations :
              report.lines[Cardinality({u \in Violations : Earlier(u, t)}) + 1] = RuleLine(t)
        /\ (report.lines = <<>>) <=> (Violations = {})

\* A report of at least two lines, taken from two different pairs and two
\* different rules.
C5_Witness ==
    /\ report.valid
    /\ \E t, u \in Violations : t[1] # u[1] /\ t[3] # u[3]
    /\ Len(report.lines) >= 2

\* The greatest price, in the current table, of the variant-rank-1 items of
\* the (product, deductible) group of x.
VariantBase(x) ==
    LET ps == {prices[items[z].key] : z \in {z \in Idx :
                   /\ items[z].product = items[x].product
                   /\ items[z].deductible = items[x].deductible
                   /\ KnownVariant(items[z].variant)
                   /\ get_variant_rank(items[z].variant) = 1}}
    IN CHOOSE p \in ps : \A q \in ps : q <= p

\* round(base * 1.07^(r - 1)), the price the markup schedule gives rank r.
MarkupPrice(base, r) == RoundHalfEven(base * Pow(107, r - 1), Pow(100, r - 1))

\* The variant rule of detect_inconsistencies reports the pair (x, y).
VariantOrderReported(x, y) == VariantOrderLines(items[x], items[y], prices) # <<>>

\* C6 as stated: two items of one non-core product and one deductible, of
\* different variant ranks, whose prices violate the variant order before
\* fix_products_inplace runs with a budget of 10 iterations, are not reported
\* as a VARIANT ORDER violation after it.
C6_AsStated ==
    (Returned /\ calls = 1 /\ max_iters = DefaultMaxIters) =>
        \A x, y \in Idx :
            ( /\ NonCoreItem(x)
              /\ VariantPair(x, y)
              /\ before[items[x].key] >= before[items[y].key] )
            => ~VariantOrderReported(x, y)

\* C6 amended: when fix_products_inplace (src/modified_version.py) returns
\* through its break, whatever its budget, detect_inconsistencies reports no
\* VARIANT ORDER violation for a pair of items of one non-core product and
\* one deductible with variant ranks r1 < r2, provided their (product,
\* deductible) group holds an item of variant rank 1 and, with base the
\* greatest price of the group's rank-1 items after the call,
\* round(base * 1.07^(r1 - 1)) < round(base * 1.07^(r2 - 1)).
C6_VariantPairRepaired ==
    (Returned /\ exit = "break") =>
        \A x, y \in Idx :
            ( /\ NonCoreItem(x)
              /\ VariantPair(x, y)
              /\ HasVariantBase(x)
              /\ MarkupPrice(VariantBase(x), get_variant_rank(items[x].variant))
                     < MarkupPrice(VariantBase(x), get_variant_rank(items[y].variant)) )
            => ~VariantOrderReported(x, y)

\* A call with the default budget of 10 on a table whose pair violated the
\* variant order returned through the break with the pair in order.
C6_Witness ==
    /\ Returned
    /\ exit = "break"
    /\ calls = 1
    /\ max_iters = DefaultMaxIters
    /\ \E x, y \in Idx :
          /\ NonCoreItem(x)
          /\ VariantPair(x, y)
          /\ HasVariantBase(x)
          /\ before[items[x].key] >= before[items[y].key]
          /\ prices[items[x].key] < prices[items[y].key]
          /\ ~VariantOrderReported(x, y)

\* The scaling of the pair (x, y) is not computable in the table t: the
\* products differ in rank and an average of one of them is missing, the
\* average of the lower product is zero, or the pair is out of order and the
\* price (cross-product action) or the least price (core action) that the
\* action divides by is zero.
NonComputable(x, y, t) ==
    LET a == items[x]
        b == items[y]
    IN /\ ~FixLookupsRaise(a, b)
       /\ get_product_rank(a.product) # get_product_rank(b.product)
       /\ LET lower == IF get_product_rank(a.product) < get_product_rank(b.product)
                       THEN a ELSE b
              higher == IF get_product_rank(a.product) < get_product_rank(b.product)
                        THEN b ELSE a
              least == min_price_in_group(items, t,
                           {it \in Range(items) : it.product = higher.product})
          IN \/ lower.product \notin DOMAIN avg_prices
             \/ higher.product \notin DOMAIN avg_prices
             \/ avg_prices[lower.product] = 0
             \/ /\ t[lower.key] >= t[higher.key]
                /\ \/ /\ ~is_core_product(lower.product)
                      /\ ~is_core_product(higher.product)
                      /\ lower.variant = higher.variant
                      /\ lower.deductible = higher.deductible
                      /\ t[higher.key] = 0
                   \/ /\ is_core_product(lower.product)
                      /\ ~is_core_product(higher.product)
                      /\ least.v = 0

\* C7: when the scan of fix_products_inplace has handled a pair whose
\* scaling is not computable (prev is the table it found, last the pair),
\* it has not raised and has changed no price.
C7_AsStated ==
    (last.i > 0 /\ NonComputable(last.i, last.j, prev)) =>
        (pc # "raised" /\ prices = prev)

\* The element x has a product, a variant or a deductible that is set and
\* absent from its rank table.
AbsentRank(x) ==
    \/ ~KnownProduct(items[x].product)
    \/ items[x].variant.some /\ ~KnownVariant(items[x].variant)
    \/ items[x].deductible.some /\ ~KnownDeductible(items[x].deductible)

\* C8 as stated: on a table with an element of absent rank neither
\* detect_inconsistencies nor fix_products_inplace completes normally.
C8_AsStated ==
    (\E x \in Idx : AbsentRank(x)) => (~report.valid /\ exit = "none")

\* The table has at least two elements, and one has an absent product or is
\* of a non-core product and has an absent variant or deductible.
FixMeetsUnknown ==
    /\ Len(items) >= 2
    /\ \E x \in Idx :
          \/ ~KnownProduct(items[x].product)
          \/ /\ ~is_core_product(items[x].product)
             /\ \/ ~KnownVariant(items[x].variant)
                \/ ~KnownDeductible(items[x].deductible)

\* Some pair makes detect_inconsistencies look up an absent value: an absent
\* product in any pair, an absent variant in a pair of one non-core product
\* and one deductible, an absent deductible in a pair of one non-core
\* product and one variant.
DetectMeetsUnknown ==
    \E x, y \in Idx :
        /\ x # y
        /\ \/ ~KnownProduct(items[x].product)
           \/ /\ KnownProduct(items[y].product)
              /\ items[x].product = items[y].product
              /\ ~is_core_product(items[x].product)
              /\ \/ /\ items[x].deductible = items[y].deductible
                    /\ ~KnownVariant(items[x].variant)
                 \/ /\ items[x].variant = items[y].variant
                    /\ ~KnownDeductible(items[x].deductible)

\* C8 amended (src/modified_version.py): fix_products_inplace never
\* completes normally on a table of at least two elements that holds an
\* element with an absent product, or an element of a non-core product with
\* an absent variant or deductible; detect_inconsistencies never completes
\* normally on a table in which some pair makes it look up an absent value.
\* Either call raises KeyError on such a table and on no other.
C8_UnknownRankRaises ==
    /\ FixMeetsUnknown => exit = "none"
    /\ DetectMeetsUnknown => ~report.valid
    /\ (pc = "raised" /\ err = "KeyError" /\ calls >= 1) => FixMeetsUnknown
    /\ (pc = "raised" /\ err = "KeyError" /\ calls = 0) => DetectMeetsUnknown
    /\ (pc = "raised" /\ BuildOk(keys)) => err = "KeyError"

\* detect_inconsistencies has raised KeyError on a table whose first pair
\* it evaluated without a failing lookup.
C8_Witness ==
    /\ pc = "raised"
    /\ err = "KeyError"
    /\ calls = 0
    /\ Len(items) = 3
    /\ ~DetectPairRaises(items[1], items[2])
    /\ DetectMeetsUnknown

\* An average-price table with every anchor present and no zero, under which
\* the product branch reaches its comparison for every pair.
UnitAverages == [p \in DOMAIN product_rank |-> 1]

\* Every rank lookup of the scan and of the detector succeeds on the table.
AllRanked ==
    \A x, y \in Idx :
        x < y => /\ ~FixLookupsRaise(items[x], items[y])
                 /\ ~DetectPairRaises(items[x], items[y])

\* The rule (1 core-vs-higher product order, 2 cross-product order,
\* 3 variant order, 4 deductible order, 0 none) whose corrective action
\* fix_products_inplace selects for the pair (x, y) on the current prices.
FixSelection(x, y) ==
    LET a == items[x]
        b == items[y]
        pa == get_product_rank(a.product)
        pb == get_product_rank(b.product)
        lower == IF pa < pb THEN a ELSE b
        o == FixPair(items, prices, UnitAverages, a, b)
    IN IF o.action = "none" THEN 0
       ELSE IF pa # pb THEN (IF is_core_product(lower.product) THEN 1 ELSE 2)
       ELSE IF DeductibleCase(a, b) THEN 4
       ELSE 3

\* The rule for which detect_inconsistencies reports the pair (x, y) on the
\* current prices, 0 if none.
DetectReport(x, y) ==
    LET a == items[x]
        b == items[y]
    IN IF ProductOrderLines(a, b, prices) # <<>> THEN 1
       ELSE IF CrossProductLines(a, b, prices) # <<>> THEN 2
       ELSE IF VariantOrderLines(a, b, prices) # <<>> THEN 3
       ELSE IF DeductibleOrderLines(a, b, prices) # <<>> THEN 4
       ELSE 0

\* C9: for every pair and every price table, fix_products_inplace selects
\* the corrective action of a rule for the pair exactly when
\* detect_inconsistencies reports a violation of that rule for the pair.
C9_AsStated ==
    AllRanked => \A x, y \in Idx : x < y => FixSelection(x, y) = DetectReport(x, y)

\* C10: every PriceElement that build_price_items has produced has a null
\* variant and a null deductible if its product is the core product, and has
\* both set otherwise.
C10_AsStated ==
    \A x \in Idx :
        IF is_core_product(items[x].product)
        THEN ~items[x].variant.some /\ ~items[x].deductible.some
        ELSE items[x].variant.some /\ items[x].deductible.some

\* The pair that the last step of the scan handled, ordered by product rank
\* as the product branch orders it (lower, higher).
LastLower ==
    LET a == items[last.i]
        b == items[last.j]
    IN IF get_product_rank(a.product) < get_product_rank(b.product) THEN a ELSE b

LastHigher ==
    LET a == items[last.i]
        b == items[last.j]
    IN IF get_product_rank(a.product) < get_product_rank(b.product) THEN b ELSE a

\* new_h (or new_min) of the last step: round(lower_price * ratio) on the
\* table the step found.
LastTarget ==
    Target(prev[LastLower.key], avg_prices[LastHigher.product],
           avg_prices[LastLower.product])

\* C11: starting from positive integer prices, with average prices that are
\* not negative, every price is a non-negative integer in every state of
\* fix_products_inplace, after every single write: the table after each
\* step of the scan, and the value new_h that the cross-product action
\* writes to the higher item before scale_product rewrites it.
C11_PricesNonNegative ==
    /\ \A k \in DOMAIN prices : prices[k] \in Nat
    /\ last.action = "cross" => LastTarget \in Nat

\* With positive averages only, the cross-product action has just written
\* the price 0 over a positive price.
C11_Witness ==
    /\ pc = "scan"
    /\ last.action = "cross"
    /\ \A p \in DOMAIN avg_prices : avg_prices[p] > 0
    /\ prev[LastHigher.key] > 0
    /\ prices[LastHigher.key] = 0

\* The parsed parts of an element joined again by the delimiter: the product
\* alone when variant and deductible are null, otherwise product, variant
\* and str(deductible).
Rejoined(it) ==
    IF ~it.variant.some /\ ~it.deductible.some THEN it.product
    ELSE Join(<<it.product, it.variant.v, Str(it.deductible.v)>>)

\* C12: for every key that build_price_items has accepted, joining the
\* parsed product, variant and deductible by '_' gives the key back.
C12_AsStated ==
    \A x \in Idx : Rejoined(items[x]) = items[x].key

\* C13: when the cross-product action has fired for a pair (prev is the
\* table it found), the higher item's price is round(lower_price * ratio)
\* and every item of the higher product, the higher item included, is its
\* old price scaled once by new_price / old_price.
C13_AsStated ==
    last.action = "cross" =>
        /\ prices[LastHigher.key] = LastTarget
        /\ \A x \in Idx :
              items[x].product = LastHigher.product =>
                  prices[items[x].key]
                      = RoundHalfEven(prev[items[x].key] * LastTarget, prev[LastHigher.key])

\* The least of the current prices of the items of a product.
LeastPrice(product) ==
    LET ps == {prices[items[x].key] : x \in {x \in Idx : items[x].product = product}}
    IN CHOOSE p \in ps : \A q \in ps : p <= q

\* C14: when the core action has fired for a pair (core price at or above
\* the non-core item's price, both averages present, old minimum not zero;
\* prev is the table it found), the least price over all items of the
\* higher product is round(core_price * avg[higher.product] / avg[core]).
C14_MinimumIsTarget ==
    last.action = "core" => LeastPrice(LastHigher.product) = LastTarget

\* The core action has fired on a product of two items and has changed the
\* price of both, the cheaper one not being the item of the pair.
C14_Witness ==
    /\ last.action = "core"
    /\ \E x \in Idx :
          /\ items[x].product = LastHigher.product
          /\ items[x] # LastHigher
          /\ prev[items[x].key] < prev[LastHigher.key]
          /\ prices[items[x].key] # prev[items[x].key]
          /\ prices[LastHigher.key] # prev[LastHigher.key]

\* C15: whenever fix_products_inplace has stopped because a full scan of
\* the pairs changed nothing, detect_inconsistencies returns the empty
\* report on the resulting table.
C15_AsStated ==
    (Returned /\ exit = "break") =>
        detect_inconsistencies(items, prices) = [status |-> "ok", lines |-> <<>>]

====
